---- MODULE Spec2Model ----
(***************************************************************************)
(* A model of trivia_qa/triviaqa_evaluators.py (vshan/document-qa).        *)
(*                                                                         *)
(* Strings are sequences of characters, a character being a one-character  *)
(* TLA+ string (the three non-ASCII quote characters of the strip set are  *)
(* named by their code point).  Probabilities are natural-number weights,  *)
(* so that products and sums are exact.  Scores that the program holds as  *)
(* fractions in [0,1] are held multiplied by Scale.                        *)
(***************************************************************************)
EXTENDS Integers, Sequences, FiniteSets, TLC

VARIABLES
    pc,                 \* position of the operation under study
    tok, normed,        \* a token and its successive normalisations
    word_start_probs, word_end_probs, bound, text,   \* arguments of get_best_text
    scores, best,       \* get_best_text: the accumulator and the returned pair
    data, prediction,   \* arguments of trivia_span_scores
    span_scores,        \* trivia_span_scores: the returned matrix
    evaluator, true_len, kargs,  \* an evaluator, its normaliser and its tensors
    ev                  \* evaluate: the outcome (an Evaluation or a raised error)

vars == << pc, tok, normed, word_start_probs, word_end_probs, bound, text,
           scores, best, data, prediction, span_scores, evaluator, true_len,
           kargs, ev >>

----------------------------------------------------------------------------
(* Bounds of the model *)

MaxTokLen == 3      \* most characters of a token of the normalisation study
MaxLen == 3         \* most words of a document, and most entries of a probability sequence
MaxRefs == 2        \* most gold spans, and most aliases, of an answer

----------------------------------------------------------------------------
(* Small helpers *)

Min(a, b) == IF a < b THEN a ELSE b
Max(a, b) == IF a > b THEN a ELSE b

\* Python's s[a:b] for 0 <= a, 0 <= b (0-based, end exclusive, clamped to len)
Slice(s, a, b) ==
    LET lo == Min(a, Len(s))
        hi == Min(b, Len(s))
    IN  IF hi <= lo THEN << >> ELSE [k \in 1..(hi - lo) |-> s[lo + k]]

\* All sequences over S of length at most n
RECURSIVE SeqsUpTo(_, _)
SeqsUpTo(S, n) ==
    IF n = 0 THEN { << >> }
    ELSE LET shorter == SeqsUpTo(S, n - 1)
         IN  shorter \cup { Append(s, c) : s \in { t \in shorter : Len(t) = n - 1 }, c \in S }

----------------------------------------------------------------------------
(* Characters *)

UpperCase == << "A","B","C","D","E","F","G","H","I","J","K","L","M",
                "N","O","P","Q","R","S","T","U","V","W","X","Y","Z" >>
LowerCase == << "a","b","c","d","e","f","g","h","i","j","k","l","m",
                "n","o","p","q","r","s","t","u","v","w","x","y","z" >>

\* str.lower() on one character
LowerOf == [c \in { UpperCase[k] : k \in 1..Len(UpperCase) } |->
               LowerCase[CHOOSE k \in 1..Len(UpperCase) : UpperCase[k] = c]]
LowerChar(c) == IF c \in DOMAIN LowerOf THEN LowerOf[c] ELSE c

\* x.lower()
lower(x) == [k \in 1..Len(x) |-> LowerChar(x[k])]

\* string.punctuation (the backquote is named by its code point)
punctuation ==
    { "!", "\"", "#", "$", "%", "&", "'", "(", ")", "*", "+", ",", "-", ".",
      "/", ":", ";", "<", "=", ">", "?", "@", "[", "\\", "]", "^", "_", "U+0060",
      "{", "|", "}", "~" }

\* strip = string.punctuation + the quote variants and the underscore
strip == punctuation \cup { "U+2018", "U+2019", "U+00B4", "U+0060", "_" }

\* skip = {"a", "an", "the", ""}
skip == { << "a" >>, << "a", "n" >>, << "t", "h", "e" >>, << >> }

\* x.lstrip(chars) and x.rstrip(chars)
RECURSIVE LStrip(_, _)
LStrip(x, chars) ==
    IF x # << >> /\ Head(x) \in chars THEN LStrip(Tail(x), chars) ELSE x

RECURSIVE RStrip(_, _)
RStrip(x, chars) ==
    IF x # << >> /\ x[Len(x)] \in chars
    THEN RStrip(SubSeq(x, 1, Len(x) - 1), chars)
    ELSE x

\* a slip: removes at most one character at each end
StripOnce(x, chars) ==
    LET l == IF x # << >> /\ Head(x) \in chars THEN Tail(x) ELSE x
    IN  IF l # << >> /\ l[Len(l)] \in chars THEN SubSeq(l, 1, Len(l) - 1) ELSE l

\* x.strip(chars)
Strip(x, chars) == RStrip(LStrip(x, chars), chars)

\* the slip, in the per-token normalisation
NormalizeTokenStripOnce(x) ==
    LET l == lower(x)
    IN  IF l \in skip THEN << >> ELSE StripOnce(l, strip)

\* the per-token normalisation of get_best_text: lower, then skip or strip
NormalizeToken(x) ==
    LET l == lower(x)
    IN  IF l \in skip THEN << >> ELSE Strip(l, strip)

----------------------------------------------------------------------------
(* The normalisation study: a token is normalised, and normalised again *)

NormChars == { "a", "n", "A", "t", "h", "e", ".", "(", ")", "p" }

Idle == "-"

InitNorm ==
    /\ pc = "norm"
    /\ tok \in SeqsUpTo(NormChars, MaxTokLen)
    /\ normed = << >>
    /\ word_start_probs = Idle /\ word_end_probs = Idle /\ bound = Idle
    /\ text = Idle /\ scores = Idle /\ best = Idle
    /\ data = Idle /\ prediction = Idle /\ span_scores = Idle
    /\ evaluator = Idle /\ true_len = Idle /\ kargs = Idle /\ ev = Idle

Normalize ==
    /\ pc = "norm"
    /\ Len(normed) < 2
    /\ normed' = Append(normed,
                        NormalizeToken(IF normed = << >> THEN tok ELSE normed[Len(normed)]))
    /\ UNCHANGED << pc, tok, word_start_probs, word_end_probs, bound, text,
                    scores, best, data, prediction, span_scores, evaluator,
                    true_len, kargs, ev >>

NextNorm == Normalize

SpecNorm == InitNorm /\ [][NextNorm]_vars

\* [C9, as stated] normalising an already normalised token returns the same
\* token, for every token
NormalizeIdempotent ==
    Len(normed) = 2 => normed[2] = normed[1]

\* [C9, amended] normalising an already normalised token returns the same
\* token unless the normalised token is itself a stop word (a stop word that
\* was wrapped in punctuation), which the second normalisation maps to the
\* empty string
NormalizeIdempotentOffStopWords ==
    Len(normed) = 2 =>
        normed[2] = IF normed[1] \in skip THEN << >> ELSE normed[1]

\* a token that is changed by lower-casing and by stripping, normalised twice
NormalizedTwiceWitness ==
    /\ pc = "norm"
    /\ Len(normed) = 2
    /\ lower(tok) # tok
    /\ normed[1] # lower(tok)
    /\ normed[1] \notin skip

----------------------------------------------------------------------------
(* get_best_text *)

\* the tokens of the documents
Vocab == { << "T", "h", "e" >>, << "U", "K" >>, << "e", "u", "." >> }

\* the weights a start or end probability takes
Probs == { 0, 1 }

\* the values of bound
Bounds == 0..MaxLen

\* best_word = None, and a tuple of words
None == [is_none |-> TRUE, val |-> << >>]
Some(word) == [is_none |-> FALSE, val |-> word]

\* text = [x.lower() for x in text]; text = ["" if x in skip else x.strip(strip) ...]
NormalizeText(t) == [k \in 1..Len(t) |-> NormalizeToken(t[k])]

IsNonEmpty(x) == Len(x) > 0

\* pred = tuple(x for x in text[start_ix:end_ix] if len(x) > 0)
Pred(ntext, start_ix, end_ix) == SelectSeq(Slice(ntext, start_ix, end_ix), IsNonEmpty)

\* scores[pred] += value, on a defaultdict(float) that keeps insertion order
AddScore(sc, word, value) ==
    IF \E k \in 1..Len(sc) : sc[k].word = word
    THEN [k \in 1..Len(sc) |->
             IF sc[k].word = word
             THEN [word |-> word, score |-> sc[k].score + value]
             ELSE sc[k]]
    ELSE Append(sc, [word |-> word, score |-> 0 + value])

\* for end_ix in range(start_ix, min(start_ix + bound, len(word_end_probs))): ...
RECURSIVE EndLoop(_, _, _, _, _, _, _)
EndLoop(sc, ntext, prob, ends, start_ix, end_ix, stop) ==
    IF end_ix >= stop THEN sc
    ELSE LET pred == Pred(ntext, start_ix, end_ix)
             sc2  == IF Len(pred) > 0
                     THEN AddScore(sc, pred, prob * ends[end_ix + 1])
                     ELSE sc
         IN  EndLoop(sc2, ntext, prob, ends, start_ix, end_ix + 1, stop)

\* for start_ix in range(0, len(word_start_probs)): prob = ...; for end_ix ...
RECURSIVE StartLoop(_, _, _, _, _, _)
StartLoop(sc, ntext, starts, ends, bnd, start_ix) ==
    IF start_ix >= Len(starts) THEN sc
    ELSE StartLoop(EndLoop(sc, ntext, starts[start_ix + 1], ends, start_ix, start_ix,
                           Min(start_ix + bnd, Len(ends))),
                   ntext, starts, ends, bnd, start_ix + 1)

\* the accumulator after the two loops
Accumulate(starts, ends, bnd, t) ==
    StartLoop(<< >>, NormalizeText(t), starts, ends, bnd, 0)

\* a slip: "if score >= best_score", so that the last maximum wins
RECURSIVE SelectBestLast(_, _, _)
SelectBestLast(sc, k, cur) ==
    IF k > Len(sc) THEN cur
    ELSE SelectBestLast(sc, k + 1,
                        IF sc[k].score >= cur.best_score
                        THEN [best_word |-> Some(sc[k].word), best_score |-> sc[k].score]
                        ELSE cur)

\* for word, score in scores.items(): if score > best_score: ...
RECURSIVE SelectBest(_, _, _)
SelectBest(sc, k, cur) ==
    IF k > Len(sc) THEN cur
    ELSE SelectBest(sc, k + 1,
                    IF sc[k].score > cur.best_score
                    THEN [best_word |-> Some(sc[k].word), best_score |-> sc[k].score]
                    ELSE cur)

\* the same slip, seen from the caller of the selection loop
BestOfLast(sc) == SelectBestLast(sc, 1, [best_word |-> None, best_score |-> -1])

\* best_score = -1; best_word = None; the selection loop; return
BestOf(sc) == SelectBest(sc, 1, [best_word |-> None, best_score |-> -1])

\* get_best_text(word_start_probs, word_end_probs, bound, text)
get_best_text(starts, ends, bnd, t) == BestOf(Accumulate(starts, ends, bnd, t))

InitText ==
    /\ pc = "call"
    /\ text \in SeqsUpTo(Vocab, MaxLen)
    /\ word_start_probs \in SeqsUpTo(Probs, MaxLen)
    /\ word_end_probs \in SeqsUpTo(Probs, MaxLen)
    /\ Len(word_start_probs) - Len(word_end_probs) \in -1..1
    /\ bound \in Bounds
    /\ scores = << >> /\ best = Idle
    /\ tok = Idle /\ normed = Idle
    /\ data = Idle /\ prediction = Idle /\ span_scores = Idle
    /\ evaluator = Idle /\ true_len = Idle /\ kargs = Idle /\ ev = Idle

GetBestText ==
    /\ pc = "call"
    /\ scores' = Accumulate(word_start_probs, word_end_probs, bound, text)
    /\ best' = BestOf(scores')
    /\ pc' = "done"
    /\ UNCHANGED << tok, normed, word_start_probs, word_end_probs, bound, text,
                    data, prediction, span_scores, evaluator, true_len, kargs, ev >>

NextText == GetBestText

SpecText == InitText /\ [][NextText]_vars

(* What the claims about get_best_text speak of *)

\* the (start_ix, end_ix) pairs of the search window, 0-based
Window(starts, ends, bnd) ==
    { p \in (0..(Len(starts) - 1)) \X (0..(Len(ends) - 1)) :
          p[1] <= p[2] /\ p[2] <= Min(p[1] + bnd, Len(ends)) - 1 }

\* the scan order of the two loops
ScannedBefore(p, q) == p[1] < q[1] \/ (p[1] = q[1] /\ p[2] < q[2])

RECURSIVE SumProducts(_, _, _)
SumProducts(pairs, starts, ends) ==
    IF pairs = {} THEN 0
    ELSE LET p == CHOOSE q \in pairs : TRUE
         IN  starts[p[1] + 1] * ends[p[2] + 1] + SumProducts(pairs \ {p}, starts, ends)

\* the normalised tokens from position i to position j inclusive, empty ones removed
InclusiveTuple(t, i, j) == SelectSeq(Slice(NormalizeText(t), i, j + 1), IsNonEmpty)

\* the two probability sequences and the token sequence have one length
SameLengths ==
    Len(word_start_probs) = Len(word_end_probs) /\ Len(word_start_probs) = Len(text)

\* [C1] on sequences of one length, a non-null result carries the sum of
\* start_probs[i]*end_probs[j] over exactly the pairs of the window whose
\* normalised tokens from i to j inclusive, empty tokens removed, form the
\* returned tuple
TotalIsSumOverInclusiveSpans ==
    (pc = "done" /\ SameLengths /\ ~best.best_word.is_none) =>
        best.best_score =
            SumProducts({ p \in Window(word_start_probs, word_end_probs, bound) :
                              InclusiveTuple(text, p[1], p[2]) = best.best_word.val },
                        word_start_probs, word_end_probs)

\* [C2] the returned tuple has the greatest accumulated total of all keyed
\* tuples, and of several tuples with that total it is the one discovered
\* first in the scan by start index, then end index (the first inserted)
BestIsFirstGreatest ==
    pc = "done" =>
        LET W        == Window(word_start_probs, word_end_probs, bound)
            nt       == NormalizeText(text)
            key      == [p \in W |-> Pred(nt, p[1], p[2])]
            keyed    == { p \in W : key[p] # << >> }
            total    == [p \in keyed |->
                            SumProducts({ q \in keyed : key[q] = key[p] },
                                        word_start_probs, word_end_probs)]
            \* the pairs at which a tuple is discovered
            first    == { p \in keyed :
                            \A q \in keyed : key[q] = key[p] => (q = p \/ ScannedBefore(p, q)) }
        IN  keyed # {} =>
              /\ ~best.best_word.is_none
              /\ \E p \in first :
                    /\ key[p] = best.best_word.val
                    /\ total[p] = best.best_score
                    /\ \A q \in first :
                          /\ total[q] <= total[p]
                          /\ total[q] = total[p] => (q = p \/ ScannedBefore(p, q))
              /\ \E n \in 1..Len(scores) :
                    /\ scores[n].word = best.best_word.val
                    /\ \A m \in 1..(n - 1) : scores[m].score < best.best_score

\* two tuples share the greatest total, a positive one, and one is returned
TieWitness ==
    /\ pc = "done"
    /\ SameLengths
    /\ ~best.best_word.is_none
    /\ best.best_score > 0
    /\ \E n, m \in 1..Len(scores) :
          /\ n # m
          /\ scores[n].score = best.best_score
          /\ scores[m].score = best.best_score

\* [C6] on sequences of one length, the call returns, and the best text is
\* null exactly when no span of the window normalises to a non-empty tuple
NullIffNoCandidate ==
    (pc # "call" /\ SameLengths) =>
        /\ pc = "done"
        /\
           (best.best_word.is_none <=>
               \A p \in Window(word_start_probs, word_end_probs, bound) :
                   InclusiveTuple(text, p[1], p[2]) = << >>)

\* [C10] start and end probability sequences of different lengths, or longer
\* than the token sequence, are rejected: the call produces no result
MismatchedInputsRejected ==
    (\/ Len(word_start_probs) # Len(word_end_probs)
     \/ Len(word_start_probs) > Len(text)
     \/ Len(word_end_probs) > Len(text)) => pc # "done"

----------------------------------------------------------------------------
(* The collaborators of the scorer, which live in other modules of the     *)
(* repository (utils, data_processing.span_data, trivia_qa.trivia_qa_eval) *)

\* flatten_iterable(context): the sentences of a context, concatenated
RECURSIVE flatten_iterable(_)
flatten_iterable(ctx) ==
    IF ctx = << >> THEN << >> ELSE Head(ctx) \o flatten_iterable(Tail(ctx))

\* " ".join(tokens)
RECURSIVE Join(_)
Join(tokens) ==
    IF tokens = << >> THEN << >>
    ELSE IF Len(tokens) = 1 THEN tokens[1]
    ELSE tokens[1] \o << " " >> \o Join(Tail(tokens))

\* s.split(): the maximal runs of non-blank characters
RECURSIVE Split(_, _, _)
Split(s, k, word) ==
    IF k > Len(s) THEN (IF word = << >> THEN << >> ELSE << word >>)
    ELSE IF s[k] = " "
         THEN (IF word = << >> THEN << >> ELSE << word >>) \o Split(s, k + 1, << >>)
         ELSE Split(s, k + 1, Append(word, s[k]))

exclude == punctuation \cup { "U+2018", "U+2019", "U+00B4" }
IsLetter(c) == c \notin exclude
IsNoArticle(w) == w \notin { << "a" >>, << "a", "n" >>, << "t", "h", "e" >> }

\* the tokens of normalize_answer(s): lower-cased, punctuation stripped,
\* articles removed, whitespace collapsed
NormalizeAnswerTokens(s) ==
    SelectSeq(Split(SelectSeq(lower(s), IsLetter), 1, << >>), IsNoArticle)

\* the documents of the scorer study, and the spans and
\* alias strings their answers and predictions are drawn from
Contexts ==
    { << << << "T", "h", "e" >>, << "U", "K" >> >>, << << "e", "u", "." >> >> >> }
GoldSpans == { << 1, 1 >>, << 1, 2 >> }
PredSpans == { << 1, 1 >>, << 0, 1 >>, << 2, 2 >> }
Aliases ==
    { << "U", "K" >>,
      << "t", "h", "e", " ", "u", "k", " ", "E", "U" >> }

\* the texts cut from the documents by a span, and the aliases, with their
\* tokens computed once
ScoredTexts ==
    Aliases \cup { Join(Slice(flatten_iterable(c), sp[1], sp[2] + 1)) :
                      c \in Contexts, sp \in PredSpans \cup GoldSpans }
TokensOf == [s \in ScoredTexts |-> NormalizeAnswerTokens(s)]

\* normalize_answer(s).split()
AnswerTokens(s) == IF s \in ScoredTexts THEN TokensOf[s] ELSE NormalizeAnswerTokens(s)

\* exact_match_score(prediction, ground_truth)
trivia_em_score(pred_text, ground_truth) ==
    AnswerTokens(pred_text) = AnswerTokens(ground_truth)

Count(w, ws) == Cardinality({ k \in 1..Len(ws) : ws[k] = w })

RECURSIVE SumMin(_, _, _)
SumMin(words, ps, gs) ==
    IF words = {} THEN 0
    ELSE LET w == CHOOSE x \in words : TRUE
         IN  Min(Count(w, ps), Count(w, gs)) + SumMin(words \ {w}, ps, gs)

\* the size of the intersection of two token multisets
NumSame(ps, gs) == SumMin({ ps[k] : k \in 1..Len(ps) }, ps, gs)

RECURSIVE Gcd(_, _)
Gcd(a, b) == IF b = 0 THEN a ELSE Gcd(b, a % b)

RECURSIVE LcmUpTo(_)
LcmUpTo(n) == IF n <= 1 THEN 1 ELSE LET l == LcmUpTo(n - 1) IN (l * n) \div Gcd(l, n)

SetMax(S) == CHOOSE m \in S : \A x \in S : x <= m

\* no span and no text of the model has more than Widest words
Widest ==
    SetMax({ MaxLen + 1 }
           \cup { Len(flatten_iterable(c)) + 1 : c \in Contexts }
           \cup { Len(AnswerTokens(a)) : a \in Aliases })

\* a score s in [0,1] is held as s * Scale, which is a whole number
Scale == LcmUpTo(2 * Widest)

\* f1_score(prediction, ground_truth): token-multiset overlap F1
trivia_f1_score(pred_text, ground_truth) ==
    LET ps   == AnswerTokens(pred_text)
        gs   == AnswerTokens(ground_truth)
        same == NumSame(ps, gs)
    IN  IF same = 0 THEN 0 ELSE (2 * same * Scale) \div (Len(ps) + Len(gs))

\* compute_span_f1(true_span, pred_span): overlap F1 of two inclusive ranges
compute_span_f1(true_span, pred_span) ==
    LET start == Max(true_span[1], pred_span[1])
        stop  == Min(true_span[2], pred_span[2])
    IN  IF start > stop THEN 0
        ELSE (2 * (stop - start + 1) * Scale)
                 \div ((pred_span[2] - pred_span[1] + 1) + (true_span[2] - true_span[1] + 1))

----------------------------------------------------------------------------
(* trivia_span_scores *)

Answer(spans, aliases) ==
    [is_none |-> FALSE, answer_spans |-> spans, answer_aliases |-> aliases]
NoAnswer == [is_none |-> TRUE, answer_spans |-> << >>, answer_aliases |-> << >>]

\* pred_text = " ".join(flatten_iterable(para.context)[pred_span[0]:pred_span[1]+1])
PredText(para, pred_span) ==
    Join(Slice(flatten_iterable(para.context), pred_span[1], pred_span[2] + 1))

\* for word_start, word_end in ans.answer_spans: ...
RECURSIVE SpanLoop(_, _, _, _)
SpanLoop(answer_spans, pred_span, k, st) ==
    IF k > Len(answer_spans) THEN st
    ELSE SpanLoop(answer_spans, pred_span, k + 1,
                  [span_max_f1  |-> Max(st.span_max_f1,
                                        compute_span_f1(answer_spans[k], pred_span)),
                   span_correct |-> IF answer_spans[k] = pred_span
                                    THEN TRUE ELSE st.span_correct])

\* a slip: the last alias decides, instead of the best one
RECURSIVE TextLoopLast(_, _, _, _)
TextLoopLast(answer_aliases, pred_text, k, st) ==
    IF k > Len(answer_aliases) THEN st
    ELSE TextLoopLast(answer_aliases, pred_text, k + 1,
                  [text_correct |-> IF trivia_em_score(pred_text, answer_aliases[k])
                                    THEN 1 ELSE 0,
                   text_max_f1  |-> trivia_f1_score(pred_text, answer_aliases[k])])

\* for text in ans.answer_aliases: ...
RECURSIVE TextLoop(_, _, _, _)
TextLoop(answer_aliases, pred_text, k, st) ==
    IF k > Len(answer_aliases) THEN st
    ELSE TextLoop(answer_aliases, pred_text, k + 1,
                  [text_correct |-> Max(st.text_correct,
                                        IF trivia_em_score(pred_text, answer_aliases[k])
                                        THEN 1 ELSE 0),
                   text_max_f1  |-> Max(st.text_max_f1,
                                        trivia_f1_score(pred_text, answer_aliases[k]))])

\* the slip, seen from the body of the loop over the examples
ScoreRowLastAlias(para, pred_span) ==
    LET sp == SpanLoop(para.answer.answer_spans, pred_span, 1,
                       [span_correct |-> FALSE, span_max_f1 |-> 0])
        tx == TextLoopLast(para.answer.answer_aliases, PredText(para, pred_span), 1,
                       [text_correct |-> 0, text_max_f1 |-> 0])
    IN  << IF sp.span_correct THEN Scale ELSE 0, sp.span_max_f1,
           tx.text_correct * Scale, tx.text_max_f1 >>

\* the body of the loop over the examples: scores[i] = [span_correct,
\* span_max_f1, text_correct, text_max_f1]
ScoreRow(para, pred_span) ==
    LET sp == SpanLoop(para.answer.answer_spans, pred_span, 1,
                       [span_correct |-> FALSE, span_max_f1 |-> 0])
        tx == TextLoop(para.answer.answer_aliases, PredText(para, pred_span), 1,
                       [text_correct |-> 0, text_max_f1 |-> 0])
    IN  << IF sp.span_correct THEN Scale ELSE 0, sp.span_max_f1,
           tx.text_correct * Scale, tx.text_max_f1 >>

\* ans.answer_spans raises AttributeError when para.answer is None
ScoresRaise(d) == \E i \in 1..Len(d) : d[i].answer.is_none

\* trivia_span_scores(data, prediction), when it does not raise
trivia_span_scores(d, pred) == [i \in 1..Len(d) |-> ScoreRow(d[i], pred[i])]

\* the examples of the scorer study: every context with every answer of at
\* most MaxRefs gold spans and at most MaxRefs aliases
Examples ==
    { [context |-> c, answer |-> Answer(sp, al)] :
          c \in Contexts, sp \in SeqsUpTo(GoldSpans, MaxRefs),
          al \in SeqsUpTo(Aliases, MaxRefs) }

\* the batches hold one or two examples
BatchLens == { 1, 2 }

InitScores ==
    /\ pc = "call"
    /\ \E n \in BatchLens :
          /\ data \in [1..n -> Examples]
          /\ prediction \in [1..n -> PredSpans]
    /\ span_scores = << >>
    /\ tok = Idle /\ normed = Idle
    /\ word_start_probs = Idle /\ word_end_probs = Idle /\ bound = Idle
    /\ text = Idle /\ scores = Idle /\ best = Idle
    /\ evaluator = Idle /\ true_len = Idle /\ kargs = Idle /\ ev = Idle

TriviaSpanScores ==
    /\ pc = "call"
    /\ IF ScoresRaise(data)
       THEN pc' = "raised" /\ UNCHANGED span_scores
       ELSE pc' = "done" /\ span_scores' = trivia_span_scores(data, prediction)
    /\ UNCHANGED << tok, normed, word_start_probs, word_end_probs, bound, text,
                    scores, best, data, prediction, evaluator, true_len, kargs, ev >>

NextScores == TriviaSpanScores

SpecScores == InitScores /\ [][NextScores]_vars

\* [C3] row i is [span_exact, span_f1, text_exact, text_f1]: span_exact is 1
\* iff the predicted span equals a gold span, span_f1 is the maximum over the
\* gold spans of the overlap F1, text_exact and text_f1 are the maxima over
\* the aliases of exact match and token F1 (0 over an empty set); each is
\* maximised on its own, is no sum over the references, and lies in [0,1]
RowsAreMaxima ==
    pc = "done" =>
        /\ Len(span_scores) = Len(data)
        /\ \A i \in 1..Len(data) :
              LET ans  == data[i].answer
                  ps   == prediction[i]
                  pt   == PredText(data[i], ps)
                  sf1  == { compute_span_f1(ans.answer_spans[k], ps) :
                                k \in 1..Len(ans.answer_spans) }
                  tem  == { IF trivia_em_score(pt, ans.answer_aliases[k])
                            THEN Scale ELSE 0 : k \in 1..Len(ans.answer_aliases) }
                  tf1  == { trivia_f1_score(pt, ans.answer_aliases[k]) :
                                k \in 1..Len(ans.answer_aliases) }
                  row  == span_scores[i]
              IN  /\ Len(row) = 4
                  /\ row[1] = (IF \E k \in 1..Len(ans.answer_spans) :
                                      ans.answer_spans[k] = ps
                               THEN Scale ELSE 0)
                  /\ row[2] = SetMax(sf1 \cup {0})
                  /\ row[3] = SetMax(tem \cup {0})
                  /\ row[4] = SetMax(tf1 \cup {0})
                  /\ \A c \in 1..4 : row[c] \in 0..Scale

\* a row whose four maxima are reached at different references: the second
\* gold span gives the span F1 and the first alias the text scores, while
\* the later alias scores less
MaximaWitness ==
    /\ pc = "done"
    /\ \E i \in 1..Len(data) :
          LET ans == data[i].answer
              pt  == PredText(data[i], prediction[i])
          IN  /\ Len(ans.answer_spans) = 2 /\ Len(ans.answer_aliases) = 2
              /\ compute_span_f1(ans.answer_spans[1], prediction[i])
                     < compute_span_f1(ans.answer_spans[2], prediction[i])
              /\ trivia_f1_score(pt, ans.answer_aliases[2])
                     < trivia_f1_score(pt, ans.answer_aliases[1])
              /\ span_scores[i][1] = 0
              /\ span_scores[i][2] \in 1..(Scale - 1)
              /\ span_scores[i][3] = Scale

----------------------------------------------------------------------------
(* The evaluators *)

\* get_best_span_bounded(p1, p2, b) of data_processing.span_data: the first
\* pair of the window, in scan order, with the greatest start*end product
get_best_span_bounded(p1, p2, b) ==
    LET W == Window(p1, p2, b)
    IN  CHOOSE p \in W :
            \A q \in W :
                \/ p1[q[1] + 1] * p2[q[2] + 1] < p1[p[1] + 1] * p2[p[2] + 1]
                \/ /\ p1[q[1] + 1] * p2[q[2] + 1] = p1[p[1] + 1] * p2[p[2] + 1]
                   /\ (q = p \/ ScannedBefore(p, q))

\* an Evaluation that was returned, and an exception that was raised instead
Returned(scalars) == [raised |-> FALSE, error |-> "", scalars |-> scalars]
Raised(error) == [raised |-> TRUE, error |-> error, scalars |-> << >>]

\* Evaluation.add(other): the scalars of other are added to the mapping
Add(scalars, other) ==
    [k \in DOMAIN scalars \cup DOMAIN other |->
        IF k \in DOMAIN other THEN other[k] ELSE scalars[k]]

\* a sum of scores divided by true_len, held as the fraction num / (Scale * den)
Ratio(num, den) == [num |-> num, den |-> den]

\* the prefix "b%d/" % b, and the empty prefix
Prefix(b) == << b >>
NoPrefix == << >>

\* scores.sum(axis=0)[c]
RECURSIVE ColumnSum(_, _)
ColumnSum(rows, c) ==
    IF rows = << >> THEN 0 ELSE Head(rows)[c] + ColumnSum(Tail(rows), c)

\* trivia_span_evaluation(data, true_len, prediction, prefix), when the
\* scorer does not raise
trivia_span_evaluation(d, tl, pred, prefix) ==
    LET rows == trivia_span_scores(d, pred)
    IN  [k \in { prefix } \X { "accuracy", "f1", "text-accuracy", "text-f1" } |->
            Ratio(ColumnSum(rows, CASE k[2] = "accuracy" -> 1
                                    [] k[2] = "f1" -> 2
                                    [] k[2] = "text-accuracy" -> 3
                                    [] k[2] = "text-f1" -> 4), tl)]

\* [x[i] for i in idx]
Pick(x, idx) == [k \in 1..Len(idx) |-> x[idx[k]]]

\* [i for i in range(len(data)) if data[i].answer is not None], 1-based
IsAnswered(para) == ~para.answer.is_none
WithAnswers(d) == SelectSeq([i \in 1..Len(d) |-> i], LAMBDA i : IsAnswered(d[i]))

\* [i for i, x in enumerate(data) if len(x.answer.answer_spans) > 0], 1-based
WithAnswerSpans(d) ==
    SelectSeq([i \in 1..Len(d) |-> i], LAMBDA i : Len(d[i].answer.answer_spans) > 0)

\* TriviaQaBoundedSpanEvaluator.evaluate: the loop over self.bound
RECURSIVE BoundedLoop(_, _, _, _, _, _)
BoundedLoop(d, tl, ka, bs, k, scalars) ==
    IF k > Len(bs) THEN scalars
    ELSE LET b            == bs[k]
             with_answers == WithAnswers(d)
             spans        ==
                 IF "p1" \in DOMAIN ka
                 THEN [i \in 1..Len(ka.p1) |-> get_best_span_bounded(ka.p1[i], ka.p2[i], b)]
                 ELSE ka.span
         IN  BoundedLoop(d, tl, ka, bs, k + 1,
                         Add(scalars,
                             trivia_span_evaluation(Pick(d, with_answers), tl,
                                                    Pick(spans, with_answers), Prefix(b))))

TriviaQaBoundedSpanEvaluator_evaluate(d, tl, ka, bs) ==
    Returned(BoundedLoop(d, tl, ka, bs, 1, << >>))

\* TfTriviaQaBoundedSpanEvaluator.evaluate: the loop over self.bound
RECURSIVE TfLoop(_, _, _, _, _, _)
TfLoop(d, tl, ka, bs, k, scalars) ==
    IF k > Len(bs) THEN scalars
    ELSE LET b           == bs[k]
             spans       == ka.span_[b]
             with_answer == WithAnswerSpans(d)
         IN  TfLoop(d, tl, ka, bs, k + 1,
                    Add(scalars,
                        trivia_span_evaluation(Pick(d, with_answer), tl,
                                               Pick(spans, with_answer), Prefix(b))))

\* len(x.answer.answer_spans) raises AttributeError when x.answer is None
WithAnswerSpansRaises(d) == \E i \in 1..Len(d) : d[i].answer.is_none

TfTriviaQaBoundedSpanEvaluator_evaluate(d, tl, ka, bs) ==
    IF bs # << >> /\ WithAnswerSpansRaises(d)
    THEN Raised("AttributeError")
    ELSE Returned(TfLoop(d, tl, ka, bs, 1, << >>))

\* ConfidenceEvaluator.evaluate, less the two rank correlations that scipy
\* computes from the returned scores
ConfidenceEvaluator_evaluate(d, tl, ka, b) ==
    IF ScoresRaise(d)
    THEN Raised("AttributeError")
    ELSE Returned(trivia_span_evaluation(d, tl, ka.spans, Prefix(b)))

\* the loop of TriviaqaAggregatedTextEvaluator.evaluate over the examples;
\* st holds total_f1, total_correct, the local correct, which is unbound
\* until an alias has been scored (<< >>, and << c >> once bound to c), and
\* the exception raised, if any
Unbound == << >>

RECURSIVE AggregatedLoop(_, _, _, _, _, _)
AggregatedLoop(input, start, end, b, ix, st) ==
    IF ix > Len(input) \/ st.error # "" THEN st
    ELSE LET doc       == input[ix]
             best_text == get_best_text(start[ix], end[ix], b,
                                        flatten_iterable(doc.context)).best_word
             pred_text == Join(best_text.val)
             aliases   == doc.answer.answer_aliases
             tx        == TextLoop(aliases, pred_text, 1,
                                   [text_correct |-> 0, text_max_f1 |-> 0])
             correct   == IF aliases = << >> THEN st.correct
                          ELSE IF trivia_em_score(pred_text, aliases[Len(aliases)])
                               THEN << 1 >> ELSE << 0 >>
         IN  AggregatedLoop(input, start, end, b, ix + 1,
                 IF best_text.is_none THEN [st EXCEPT !.error = "TypeError"]
                 ELSE IF doc.answer.is_none THEN [st EXCEPT !.error = "AttributeError"]
                 ELSE IF correct = Unbound THEN [st EXCEPT !.error = "UnboundLocalError"]
                 ELSE [total_f1      |-> st.total_f1 + tx.text_max_f1,
                       total_correct |-> st.total_correct + correct[1],
                       correct       |-> correct,
                       error         |-> ""])

TriviaqaAggregatedTextEvaluator_evaluate(input, tl, ka, b) ==
    LET st == AggregatedLoop(input, ka.start, ka.end, b, 1,
                             [total_f1 |-> 0, total_correct |-> 0,
                              correct |-> Unbound, error |-> ""])
    IN  IF st.error # "" THEN Raised(st.error)
        ELSE Returned([k \in { NoPrefix } \X { "agg-text-f1", "agg-text-em" } |->
                          IF k[2] = "agg-text-f1"
                          THEN Ratio(st.total_f1, tl)
                          ELSE Ratio(st.total_correct * Scale, tl)])

TheWord == << "T", "h", "e" >>

\* the documents of the evaluator study: those of the scorer study and one
\* that holds a stop word only
EvalContexts == Contexts \cup { << << TheWord >> >> }

\* their answers: none, or at most one gold span and at most MaxRefs aliases
EvalAnswers ==
    { NoAnswer } \cup
    { Answer(sp, al) : sp \in { << >>, << << 1, 1 >> >> },
                       al \in SeqsUpTo(Aliases, MaxRefs) }

EvalExamples == { [context |-> c, answer |-> a] : c \in EvalContexts, a \in EvalAnswers }

\* a probability vector with all its weight on word i (1-based), and the
\* (start, end) pairs of vectors of a document of n words
OneHot(n, i) == [k \in 1..n |-> IF k = i THEN 1 ELSE 0]
ProbPairs(n) ==
    { << OneHot(n, q[1]), OneHot(n, q[2]) >> :
          q \in { r \in (1..n) \X (1..n) : r[2] \in { r[1], r[1] + 1 } } }

\* the predicted spans of at most b words
SpansWithin(b) == { sp \in PredSpans : sp[2] - sp[1] + 1 <= b }

EvaluatorKinds ==
    { "TriviaQaBoundedSpanEvaluator", "TfTriviaQaBoundedSpanEvaluator",
      "ConfidenceEvaluator", "TriviaqaAggregatedTextEvaluator" }

\* the values of self.bound: a list for the bounded-span evaluators
BoundLists == { << 2 >>, << 1, 2 >> }
EvalBounds == { 1, 2 }

InitEval ==
    /\ pc = "call"
    /\ evaluator \in EvaluatorKinds
    /\ \E n \in BatchLens :
          /\ data \in [1..n -> EvalExamples]
          /\ true_len \in { n, n + 1 }
          /\ LET words(i) == Len(flatten_iterable(data[i].context))
                 probs    == { t \in [1..n -> UNION { ProbPairs(m) : m \in 1..MaxLen }] :
                                 \A i \in 1..n : t[i] \in ProbPairs(words(i)) }
             IN  CASE evaluator = "TriviaQaBoundedSpanEvaluator" ->
                        /\ bound \in BoundLists
                        /\ \/ \E t \in probs :
                                 kargs = [p1 |-> [i \in 1..n |-> t[i][1]],
                                          p2 |-> [i \in 1..n |-> t[i][2]]]
                           \/ \E sp \in [1..n -> PredSpans] :
                                 kargs = [score |-> [i \in 1..n |-> 1], span |-> sp]
                  [] evaluator = "TfTriviaQaBoundedSpanEvaluator" ->
                        /\ bound \in BoundLists
                        /\ \E f \in [1..2 -> [1..n -> PredSpans]] :
                              /\ \A k \in 1..Len(bound) : \A i \in 1..n :
                                    f[bound[k]][i] \in SpansWithin(bound[k])
                              /\ \A b \in 1..2 : (\A k \in 1..Len(bound) : bound[k] # b)
                                    => f[b] = [i \in 1..n |-> << 1, 1 >>]
                              /\ kargs = [span_ |-> f]
                  [] evaluator = "ConfidenceEvaluator" ->
                        /\ bound \in EvalBounds
                        /\ \E sp \in [1..n -> SpansWithin(bound)] :
                              kargs = [spans |-> sp]
                  [] evaluator = "TriviaqaAggregatedTextEvaluator" ->
                        /\ bound \in EvalBounds
                        /\ \E t \in probs :
                              kargs = [start |-> [i \in 1..n |-> t[i][1]],
                                       end   |-> [i \in 1..n |-> t[i][2]]]
    /\ ev = Idle
    /\ tok = Idle /\ normed = Idle
    /\ word_start_probs = Idle /\ word_end_probs = Idle
    /\ text = Idle /\ scores = Idle /\ best = Idle
    /\ prediction = Idle /\ span_scores = Idle

EvalUnchanged ==
    UNCHANGED << tok, normed, word_start_probs, word_end_probs, bound, text, scores,
                 best, data, prediction, span_scores, evaluator, true_len, kargs >>

BoundedEvaluate ==
    /\ pc = "call" /\ evaluator = "TriviaQaBoundedSpanEvaluator"
    /\ ev' = TriviaQaBoundedSpanEvaluator_evaluate(data, true_len, kargs, bound)
    /\ pc' = IF ev'.raised THEN "raised" ELSE "done"
    /\ EvalUnchanged

TfBoundedEvaluate ==
    /\ pc = "call" /\ evaluator = "TfTriviaQaBoundedSpanEvaluator"
    /\ ev' = TfTriviaQaBoundedSpanEvaluator_evaluate(data, true_len, kargs, bound)
    /\ pc' = IF ev'.raised THEN "raised" ELSE "done"
    /\ EvalUnchanged

ConfidenceEvaluate ==
    /\ pc = "call" /\ evaluator = "ConfidenceEvaluator"
    /\ ev' = ConfidenceEvaluator_evaluate(data, true_len, kargs, bound)
    /\ pc' = IF ev'.raised THEN "raised" ELSE "done"
    /\ EvalUnchanged

AggregatedEvaluate ==
    /\ pc = "call" /\ evaluator = "TriviaqaAggregatedTextEvaluator"
    /\ ev' = TriviaqaAggregatedTextEvaluator_evaluate(data, true_len, kargs, bound)
    /\ pc' = IF ev'.raised THEN "raised" ELSE "done"
    /\ EvalUnchanged

NextEval ==
    \/ BoundedEvaluate
    \/ TfBoundedEvaluate
    \/ ConfidenceEvaluate
    \/ AggregatedEvaluate

SpecEval == InitEval /\ [][NextEval]_vars

(* What the claims about the evaluators speak of *)

\* the sum of f[1], ..., f[n]
RECURSIVE SumTo(_, _)
SumTo(f, n) == IF n = 0 THEN 0 ELSE f[n] + SumTo(f, n - 1)

AllAnswered == \A i \in 1..Len(data) : ~data[i].answer.is_none

\* the best text of example i, as the aggregated-text evaluator asks for it
BestTextOf(i) ==
    get_best_text(kargs.start[i], kargs.end[i], bound,
                  flatten_iterable(data[i].context)).best_word

\* [C4] agg-text-em is the sum over the examples of the maximum over the
\* example's aliases of the exact match, divided by true_len, and agg-text-f1
\* the same with the token F1; the order of the aliases does not matter
AggregatedScoresAreAliasMaxima ==
    (pc = "done" /\ evaluator = "TriviaqaAggregatedTextEvaluator") =>
        LET aliases(i) == data[i].answer.answer_aliases
            pred(i)    == Join(BestTextOf(i).val)
            em  == [i \in 1..Len(data) |->
                       SetMax({ IF trivia_em_score(pred(i), aliases(i)[k])
                                THEN Scale ELSE 0 : k \in 1..Len(aliases(i)) } \cup {0})]
            f1  == [i \in 1..Len(data) |->
                       SetMax({ trivia_f1_score(pred(i), aliases(i)[k]) :
                                    k \in 1..Len(aliases(i)) } \cup {0})]
        IN  /\ ev.scalars[<< NoPrefix, "agg-text-em" >>] = Ratio(SumTo(em, Len(data)), true_len)
            /\ ev.scalars[<< NoPrefix, "agg-text-f1" >>] = Ratio(SumTo(f1, Len(data)), true_len)

\* what the aggregated-text evaluator returns for example i alone
AloneScalars(i) ==
    TriviaqaAggregatedTextEvaluator_evaluate(
        << data[i] >>, 1,
        [start |-> << kargs.start[i] >>, end |-> << kargs.end[i] >>], bound).scalars

\* [C5] in the aggregated-text evaluator an example without aliases adds 0
\* to both totals, without an error, wherever it stands in the batch, and
\* every other example adds what it adds when evaluated alone
EmptyAliasesContributeNothing ==
    (/\ pc # "call" /\ evaluator = "TriviaqaAggregatedTextEvaluator"
     /\ AllAnswered
     /\ \A i \in 1..Len(data) : ~BestTextOf(i).is_none) =>
        /\ pc = "done"
        /\ LET own(m) == [i \in 1..Len(data) |->
                             IF data[i].answer.answer_aliases = << >> THEN 0
                             ELSE AloneScalars(i)[<< NoPrefix, m >>].num]
           IN  \A m \in { "agg-text-em", "agg-text-f1" } :
                   ev.scalars[<< NoPrefix, m >>] = Ratio(SumTo(own(m), Len(data)), true_len)

\* [C7] the aggregated-text evaluator completes and returns its two metrics
\* for a batch that holds an example whose best text is null
AbsentBestTextIsHandled ==
    (/\ pc # "call" /\ evaluator = "TriviaqaAggregatedTextEvaluator"
     /\ AllAnswered
     /\ \A i \in 1..Len(data) : data[i].answer.answer_aliases # << >>
     /\ \E i \in 1..Len(data) : BestTextOf(i).is_none) =>
        /\ pc = "done"
        /\ ~ev.raised
        /\ DOMAIN ev.scalars = { NoPrefix } \X { "agg-text-f1", "agg-text-em" }

\* the bounds a bounded-span evaluator reports, and the span it scores for
\* example i under bound b
ReportedBounds == IF evaluator = "ConfidenceEvaluator" THEN << bound >> ELSE bound
ScoredSpan(b, i) ==
    CASE evaluator = "ConfidenceEvaluator" -> kargs.spans[i]
      [] evaluator = "TfTriviaQaBoundedSpanEvaluator" -> kargs.span_[b][i]
      [] evaluator = "TriviaQaBoundedSpanEvaluator" ->
             IF "p1" \in DOMAIN kargs
             THEN get_best_span_bounded(kargs.p1[i], kargs.p2[i], b)
             ELSE kargs.span[i]

\* [C8] the bounded-span evaluators score only the examples that have a gold
\* span: every summed metric of every bound is the sum of the rows of those
\* examples, an example without gold spans adding nothing
OnlyExamplesWithGoldSpansScored ==
    (/\ pc # "call"
     /\ evaluator \in { "TriviaQaBoundedSpanEvaluator", "TfTriviaQaBoundedSpanEvaluator",
                        "ConfidenceEvaluator" }
     /\ AllAnswered) =>
        /\ pc = "done"
        /\ \A k \in 1..Len(ReportedBounds) :
              LET b      == ReportedBounds[k]
                  row(c) == [i \in 1..Len(data) |->
                                IF Len(data[i].answer.answer_spans) > 0
                                THEN ScoreRow(data[i], ScoredSpan(b, i))[c] ELSE 0]
              IN  /\ ev.scalars[<< Prefix(b), "accuracy" >>] = Ratio(SumTo(row(1), Len(data)), true_len)
                  /\ ev.scalars[<< Prefix(b), "f1" >>] = Ratio(SumTo(row(2), Len(data)), true_len)
                  /\ ev.scalars[<< Prefix(b), "text-accuracy" >>] = Ratio(SumTo(row(3), Len(data)), true_len)
                  /\ ev.scalars[<< Prefix(b), "text-f1" >>] = Ratio(SumTo(row(4), Len(data)), true_len)

====
